---- MODULE Spec2Model ----
(***************************************************************************)
(* DirtyJTAG SPI programmer driver (dirtyjtag_spi.c).                      *)
(*                                                                         *)
(* Two parts of the driver are modelled:                                   *)
(*   - dirtyjtag_spi_init: libusb setup, frequency parsing, init frame,    *)
(*     master registration (specification SpecInit);                       *)
(*   - dirtyjtag_djtag1_spi_send_command: the chunked SPI transaction      *)
(*     (specification Spec for one caller, SpecConc for two callers of     *)
(*     the same session).                                                  *)
(*                                                                         *)
(* Memory is modelled as sequences of bytes (0..255).  Bytes the code      *)
(* never initialises (malloc'd regions, the stack array readout_buffer)    *)
(* hold a fill byte drawn from GarbageBytes.  C strings are sequences of   *)
(* one-character strings without the terminating NUL.                      *)
(***************************************************************************)
EXTENDS Integers, Sequences, FiniteSets, TLC

VARIABLES
    call,        \* per caller: the activation of dirtyjtag_djtag1_spi_send_command
    wire,        \* history: transport calls issued since the bus was last quiet
    handle,      \* libusb device handle: "none" | "open" | "closed"
    djtag_data,  \* struct dirtyjtag_spi_data: "null" | "live" | "freed"
    registered,  \* register_spi_master succeeded (session Ready)
    protocol_version, \* field of struct dirtyjtag_spi_data: "unset" | "DJTAG1"
    ipc,         \* position inside dirtyjtag_spi_init
    cfg,         \* the "frequency" programmer parameter: NoParam or a string
    tmp,         \* the strdup'ed parameter: "null" | "live" | "freed"
    freq,        \* local variable freq of dirtyjtag_spi_init
    iret,        \* return value of dirtyjtag_spi_init (meaningful once ipc = "done")
    failed_step, \* which step of dirtyjtag_spi_init failed ("none" if none)
    done_steps   \* history: the steps of dirtyjtag_spi_init that succeeded, in order

vars == <<call, wire, handle, djtag_data, registered, protocol_version,
          ipc, cfg, tmp, freq, iret, failed_step, done_steps>>

sessionVars == <<handle, djtag_data, registered, protocol_version>>
initVars == <<ipc, cfg, tmp, freq, iret, failed_step, done_steps>>

-----------------------------------------------------------------------------
(* Bounds of the model *)

MaxW == 31      \* writecnt ranges over 0..MaxW
MaxR == 31      \* readcnt ranges over 0..MaxR
MaxCalls == 2   \* transactions issued per caller
ShortLen == 16  \* bytes delivered by a short bulk read

(* Fill bytes of uninitialised memory, prior contents of the caller's readarr,
   and the seeds of the device's reply pattern. *)
GarbageBytes == {0, 170}
ReadarrFill == {255}
DeviceSeeds == {0}

Callers == {"A", "B"}
SeqCallers == {"A"}

-----------------------------------------------------------------------------
(* Protocol constants *)

CMD_STOP == 0
CMD_FREQ == 2
CMD_XFER == 3
CMD_SETSIG == 4

SIG_TCK == 2
SIG_TDI == 4
SIG_TMS == 16
SIG_TRST == 32
SIG_SRST == 64

max_xfer_size == 30
FrameLen == 32

-----------------------------------------------------------------------------
(* Byte-buffer helpers *)

Fill(n, b) == [k \in 1..n |-> b]

\* memcpy(buf + off, data, Len(data)), restricted to the bytes buf owns
Store(buf, off, data) ==
    [k \in 1..Len(buf) |->
        IF k > off /\ k <= off + Len(data) THEN data[k - off] ELSE buf[k]]

\* the n bytes at buf + off; a byte outside buf reads as garbage g
Load(buf, off, n, g) ==
    [k \in 1..n |-> IF off + k <= Len(buf) THEN buf[off + k] ELSE g]

-----------------------------------------------------------------------------
(* dirtyjtag_send / dirtyjtag_receive: the result of libusb_bulk_transfer is a
   pair (libusb return code, bytes transferred) chosen by the environment. *)

SendResults(len) ==
    { [rc |-> 0, transferred |-> len],
      [rc |-> 0, transferred |-> len - 1],
      [rc |-> -1, transferred |-> 0] }

RecvResults ==
    { [rc |-> 0, transferred |-> FrameLen],
      [rc |-> 0, transferred |-> ShortLen],
      [rc |-> -1, transferred |-> 0] }

dirtyjtag_send(res, len) ==
    IF res.rc # 0 THEN -1
    ELSE IF res.transferred # len THEN -1
    ELSE 0

dirtyjtag_receive(res, expected) ==
    IF res.rc # 0 THEN -1
    ELSE IF expected # -1 /\ res.transferred # expected THEN -1
    ELSE res.transferred

\* the 32-byte reply the device prepares for its n-th reply (n from 0)
Reply(seed, n) == [j \in 1..FrameLen |-> (seed + FrameLen * n + j) % 256]

RecvCount == Cardinality({k \in 1..Len(wire) : wire[k].op = "recv"})

\* The device at the other end of the bulk endpoints: one that answers with
\* the pattern Reply, or a test double that echoes the payload of the frame
\* it was sent last.
Devices == {[kind |-> "pattern", seed |-> s] : s \in DeviceSeeds}
EchoDevices == {[kind |-> "echo", seed |-> 0]}

\* the frame caller c sent last
LastSent(c) ==
    LET ks == {k \in 1..Len(wire) : wire[k].who = c /\ wire[k].op = "send"}
    IN  wire[CHOOSE k \in ks : \A m \in ks : m <= k].data

DeviceReply(dev, n, sent) ==
    IF dev.kind = "echo"
    THEN [j \in 1..FrameLen |-> IF j + 2 <= Len(sent) THEN sent[j + 2] ELSE 0]
    ELSE Reply(dev.seed, n)

\* the n bytes at offset off lie inside buf
InBuf(buf, off, n) == off + n <= Len(buf)

-----------------------------------------------------------------------------
(* dirtyjtag_djtag1_spi_send_command *)

\* faulty variant: the chunk count rounded as len/30 + 1
num_xfer_plus1(len) == len \div max_xfer_size + 1

\* faulty variant: the scratch buffers sized with the chunk count rounded down
num_xfer_floor(len) == len \div max_xfer_size

num_xfer(len) == (len + max_xfer_size - 1) \div max_xfer_size

\* faulty variant: the last chunk declared as a full chunk
txn_size_full(i, len) == 30

txn_size(i, len) ==
    IF i = num_xfer(len) - 1 /\ len % max_xfer_size # 0
    THEN len % max_xfer_size
    ELSE 30

\* faulty variant: every frame filled from the start of tx_buf
command_buffer_first(i, len, tx_buf, g) ==
    <<CMD_XFER, (txn_size(i, len) * 8) % 256>>
        \o Load(tx_buf, 0, txn_size(i, len), g)
        \o Fill(FrameLen - 2 - txn_size(i, len), 0)

\* faulty variant: command_buffer declared without its initialiser
command_buffer_nopad(i, len, tx_buf, g) ==
    <<CMD_XFER, (txn_size(i, len) * 8) % 256>>
        \o Load(tx_buf, 30 * i, txn_size(i, len), g)
        \o Fill(FrameLen - 2 - txn_size(i, len), g)

\* uint8_t command_buffer[32] = {CMD_XFER}; [1] = txn_size*8; memcpy(+2, tx_buf+30*i, txn_size)
command_buffer(i, len, tx_buf, g) ==
    <<CMD_XFER, (txn_size(i, len) * 8) % 256>>
        \o Load(tx_buf, 30 * i, txn_size(i, len), g)
        \o Fill(FrameLen - 2 - txn_size(i, len), 0)

\* faulty variant: replies stored at the frame stride instead of the chunk stride
rx_offset_frame(i) == i * FrameLen

\* offset of chunk i in rx_buf
rx_offset(i) == i * 30

tms_reset_buffer == <<CMD_SETSIG, SIG_TMS, SIG_TMS, CMD_STOP>>

IdleCall ==
    [pc |-> "idle", writecnt |-> 0, readcnt |-> 0, writearr |-> <<>>,
     readarr |-> <<>>, tx_buf |-> <<>>, rx_buf |-> <<>>,
     tx_st |-> "none", rx_st |-> "none", i |-> 0, ret |-> 0,
     garbage |-> 0, ncalls |-> 0,
     dev |-> [kind |-> "pattern", seed |-> 0],
     oob |-> FALSE,          \* history: a scratch-buffer access left its buffer
     prev_failed |-> FALSE]  \* history: the caller's previous call saw a transport failure

InProgress(c) == call[c].pc \in {"send", "recv", "reset"}

\* bytes the caller passes in writearr
WriteBytes(w) == [p \in 1..w |-> p]

\* Entry of the function up to the chunk loop (lines 123-138): both mallocs
\* and the copy of writearr into tx_buf.
Begin(c, Ws, Rs, calls, Devs) ==
    /\ registered /\ handle = "open"
    /\ call[c].pc = "idle"
    /\ call[c].ncalls < calls
    /\ \E w \in Ws, r \in Rs, g \in GarbageBytes, rf \in ReadarrFill,
          tx_ok \in BOOLEAN, rx_ok \in BOOLEAN, dev \in Devs :
        LET len == w + r
            size == max_xfer_size * num_xfer(len)
            base == [IdleCall EXCEPT !.writecnt = w, !.readcnt = r,
                        !.writearr = WriteBytes(w), !.readarr = Fill(r, rf),
                        !.garbage = g, !.ncalls = call[c].ncalls + 1,
                        !.dev = dev, !.prev_failed = call[c].prev_failed]
        IN  call' = [call EXCEPT ![c] =
                IF ~tx_ok
                THEN [base EXCEPT !.pc = "done", !.ret = -1]
                ELSE IF ~rx_ok
                THEN [base EXCEPT !.pc = "done", !.ret = -1, !.tx_st = "live",
                            !.tx_buf = Fill(size, g)]
                ELSE [base EXCEPT
                        !.pc = IF num_xfer(len) > 0 THEN "send" ELSE "reset",
                        !.tx_st = "live", !.rx_st = "live",
                        !.oob = ~InBuf(Fill(size, g), 0, w),
                        !.tx_buf = Store(Fill(size, g), 0, WriteBytes(w)),
                        !.rx_buf = Fill(size, g)]]
    /\ UNCHANGED <<wire, sessionVars, initVars>>

\* faulty variant: all transfer frames are sent back to back and only the last
\* one is followed by a receive
XferSend_burst(c) ==
    /\ call[c].pc = "send"
    /\ LET f == call[c]
           len == f.writecnt + f.readcnt
           cb == command_buffer(f.i, len, f.tx_buf, f.garbage)
           more == f.i + 1 < num_xfer(len)
       IN  \E res \in SendResults(Len(cb)) :
             /\ wire' = Append(wire, [who |-> c, op |-> "send", data |-> cb,
                                      ret |-> dirtyjtag_send(res, Len(cb))])
             /\ call' = [call EXCEPT
                    ![c].oob = f.oob \/ ~InBuf(f.tx_buf, 30 * f.i, txn_size(f.i, len)),
                    ![c].i = IF more THEN f.i + 1 ELSE f.i,
                    ![c].pc = IF more THEN "send" ELSE "recv"]
    /\ UNCHANGED <<sessionVars, initVars>>

\* Lines 140-149: build the transfer frame of chunk i and send it.
XferSend(c) ==
    /\ call[c].pc = "send"
    /\ LET f == call[c]
           len == f.writecnt + f.readcnt
           cb == command_buffer(f.i, len, f.tx_buf, f.garbage)
       IN  \E res \in SendResults(Len(cb)) :
             /\ wire' = Append(wire, [who |-> c, op |-> "send", data |-> cb,
                                      ret |-> dirtyjtag_send(res, Len(cb))])
             /\ call' = [call EXCEPT
                    ![c].oob = f.oob \/ ~InBuf(f.tx_buf, 30 * f.i, txn_size(f.i, len)),
                    ![c].pc = "recv"]
    /\ UNCHANGED <<sessionVars, initVars>>

\* faulty variant: a failed receive returns -1 at once, skipping the rest of the call
XferRecv_abort(c) ==
    /\ call[c].pc = "recv"
    /\ LET f == call[c]
           len == f.writecnt + f.readcnt
       IN  \E res \in RecvResults :
             LET got == SubSeq(DeviceReply(f.dev, RecvCount, LastSent(c)), 1, res.transferred)
                 readout_buffer == Store(Fill(FrameLen, f.garbage), 0, got)
                 ret == dirtyjtag_receive(res, 32)
             IN  /\ wire' = Append(wire, [who |-> c, op |-> "recv", data |-> got,
                                          ret |-> ret])
                 /\ call' = IF ret < 0
                            THEN [call EXCEPT ![c].ret = -1, ![c].pc = "done",
                                              ![c].tx_st = "freed", ![c].rx_st = "freed"]
                            ELSE [call EXCEPT
                                    ![c].rx_buf = Store(f.rx_buf, rx_offset(f.i),
                                            SubSeq(readout_buffer, 1, txn_size(f.i, len))),
                                    ![c].i = f.i + 1,
                                    ![c].pc = IF f.i + 1 < num_xfer(len) THEN "send" ELSE "reset"]
    /\ UNCHANGED <<sessionVars, initVars>>

\* faulty variant: a failed receive closes the device handle
XferRecv_close(c) ==
    /\ call[c].pc = "recv"
    /\ LET f == call[c]
           len == f.writecnt + f.readcnt
       IN  \E res \in RecvResults :
             LET got == SubSeq(DeviceReply(f.dev, RecvCount, LastSent(c)), 1, res.transferred)
                 readout_buffer == Store(Fill(FrameLen, f.garbage), 0, got)
                 ret == dirtyjtag_receive(res, 32)
             IN  /\ wire' = Append(wire, [who |-> c, op |-> "recv", data |-> got,
                                          ret |-> ret])
                 /\ handle' = IF ret < 0 THEN "closed" ELSE handle
                 /\ call' = [call EXCEPT
                        ![c].rx_buf = Store(f.rx_buf, rx_offset(f.i),
                                            SubSeq(readout_buffer, 1, txn_size(f.i, len))),
                        ![c].oob = f.oob \/ ~InBuf(f.rx_buf, rx_offset(f.i), txn_size(f.i, len)),
                        ![c].i = f.i + 1,
                        ![c].pc = IF f.i + 1 < num_xfer(len) THEN "send" ELSE "reset"]
    /\ UNCHANGED <<djtag_data, registered, protocol_version, initVars>>

\* Lines 150-152: receive the reply of chunk i, store it in rx_buf, next chunk.
XferRecv(c) ==
    /\ call[c].pc = "recv"
    /\ LET f == call[c]
           len == f.writecnt + f.readcnt
       IN  \E res \in RecvResults :
             LET got == SubSeq(DeviceReply(f.dev, RecvCount, LastSent(c)), 1, res.transferred)
                 readout_buffer == Store(Fill(FrameLen, f.garbage), 0, got)
             IN  /\ wire' = Append(wire, [who |-> c, op |-> "recv", data |-> got,
                                          ret |-> dirtyjtag_receive(res, 32)])
                 /\ call' = [call EXCEPT
                        ![c].rx_buf = Store(f.rx_buf, rx_offset(f.i),
                                            SubSeq(readout_buffer, 1, txn_size(f.i, len))),
                        ![c].oob = f.oob \/ ~InBuf(f.rx_buf, rx_offset(f.i), txn_size(f.i, len)),
                        ![c].i = f.i + 1,
                        ![c].pc = IF f.i + 1 < num_xfer(len) THEN "send" ELSE "reset"]
    /\ UNCHANGED <<sessionVars, initVars>>

\* Lines 153-167: copy the read bytes out, free both buffers, send the TMS
\* reset frame, return 0.
ResetSend(c) ==
    /\ call[c].pc = "reset"
    /\ LET f == call[c]
       IN  \E res \in SendResults(Len(tms_reset_buffer)) :
             /\ wire' = Append(wire, [who |-> c, op |-> "send", data |-> tms_reset_buffer,
                                      ret |-> dirtyjtag_send(res, Len(tms_reset_buffer))])
             /\ call' = [call EXCEPT
                    ![c].readarr = Load(f.rx_buf, f.writecnt, f.readcnt, f.garbage),
                    ![c].oob = f.oob \/ ~InBuf(f.rx_buf, f.writecnt, f.readcnt),
                    ![c].tx_st = "freed", ![c].rx_st = "freed",
                    ![c].ret = 0,
                    ![c].pc = "done"]
    /\ UNCHANGED <<sessionVars, initVars>>

\* The framework takes the result (ret, readarr) of a finished call; the
\* caller is then free to issue its next command.  The wire history restarts
\* once no transaction is in progress.
Return(c) ==
    /\ call[c].pc = "done"
    /\ call' = [call EXCEPT ![c] =
            [IdleCall EXCEPT !.ncalls = call[c].ncalls,
                !.prev_failed = \E k \in 1..Len(wire) :
                    /\ wire[k].who = c
                    /\ wire[k].ret # (IF wire[k].op = "send" THEN 0 ELSE FrameLen)]]
    /\ wire' = IF \E o \in Callers \ {c} : call[o].pc # "idle" THEN wire ELSE <<>>
    /\ UNCHANGED <<sessionVars, initVars>>

\* dirtyjtag_spi_shutdown
Shutdown ==
    /\ registered /\ handle = "open"
    /\ \A c \in Callers : call[c].pc = "idle"
    /\ handle' = "closed"
    /\ djtag_data' = "freed"
    /\ registered' = FALSE
    /\ UNCHANGED <<call, wire, protocol_version, initVars>>

-----------------------------------------------------------------------------
(* C library pieces used by the frequency parser.  A string is a sequence of
   one-character strings; a pointer into it is the number of characters
   before it (tmp = 0, end = Len(s)). *)

UpperCase == <<"A","B","C","D","E","F","G","H","I","J","K","L","M",
               "N","O","P","Q","R","S","T","U","V","W","X","Y","Z">>
LowerCase == <<"a","b","c","d","e","f","g","h","i","j","k","l","m",
               "n","o","p","q","r","s","t","u","v","w","x","y","z">>
DigitChars == <<"0","1","2","3","4","5","6","7","8","9","a","b","c","d","e","f">>

tolower(ch) ==
    IF \E k \in 1..26 : UpperCase[k] = ch
    THEN LowerCase[CHOOSE k \in 1..26 : UpperCase[k] = ch]
    ELSE ch

\* value of ch as a digit, 99 when it is none
DigitVal(ch) ==
    IF \E k \in 1..16 : DigitChars[k] = tolower(ch)
    THEN (CHOOSE k \in 1..16 : DigitChars[k] = tolower(ch)) - 1
    ELSE 99

IsDigit(ch, base) == DigitVal(ch) < base

strcasecmp_eq(a, b) ==
    /\ Len(a) = Len(b)
    /\ \A k \in 1..Len(a) : tolower(a[k]) = tolower(b[k])

\* number of leading blanks of s from position p (1-based)
RECURSIVE SkipSpace(_, _)
SkipSpace(s, p) ==
    IF p <= Len(s) /\ s[p] = " " THEN SkipSpace(s, p + 1) ELSE p

\* first position >= p of s that holds no digit of the base
RECURSIVE DigitsEnd(_, _, _)
DigitsEnd(s, p, base) ==
    IF p <= Len(s) /\ IsDigit(s[p], base) THEN DigitsEnd(s, p + 1, base) ELSE p

\* the digits of s in [p, q) without leading zeros
RECURSIVE Significant(_, _, _)
Significant(s, p, q) ==
    IF p < q /\ s[p] = "0" THEN Significant(s, p + 1, q) ELSE SubSeq(s, p, q - 1)

RECURSIVE DigitsValue(_, _)
DigitsValue(d, base) ==
    IF d = <<>> THEN 0
    ELSE DigitsValue(SubSeq(d, 1, Len(d) - 1), base) * base + DigitVal(d[Len(d)])

ULONG_MAX_DIGITS ==
    <<"1","8","4","4","6","7","4","4","0","7","3","7","0","9","5","5","1","6","1","5">>

RECURSIVE LexGreater(_, _)
LexGreater(a, b) ==
    /\ a # <<>>
    /\ \/ DigitVal(a[1]) > DigitVal(b[1])
       \/ DigitVal(a[1]) = DigitVal(b[1]) /\ LexGreater(Tail(a), Tail(b))

\* the digit string d (no leading zeros) exceeds ULONG_MAX = 2^64 - 1
Overflows(d, base) ==
    CASE base = 10 -> \/ Len(d) > 20
                      \/ Len(d) = 20 /\ LexGreater(d, ULONG_MAX_DIGITS)
      [] base = 16 -> Len(d) > 16
      [] OTHER     -> \/ Len(d) > 22
                      \/ Len(d) = 22 /\ DigitVal(d[1]) > 1

\* strtoul(s, &units, 0) for an unsigned input: the value, the end pointer
\* and whether errno was set (ERANGE).
strtoul(s) ==
    LET p == SkipSpace(s, 1)
        hex == /\ p + 2 <= Len(s) /\ s[p] = "0" /\ tolower(s[p + 1]) = "x"
               /\ IsDigit(s[p + 2], 16)
        base == IF hex THEN 16
                ELSE IF p <= Len(s) /\ s[p] = "0" THEN 8 ELSE 10
        first == IF hex THEN p + 2 ELSE p
        q == DigitsEnd(s, first, base)
        d == Significant(s, first, q)
    IN  IF q = first THEN [val |-> 0, units |-> 0, errno |-> FALSE]
        ELSE IF Overflows(d, base) THEN [val |-> 0, units |-> q - 1, errno |-> TRUE]
        ELSE [val |-> DigitsValue(d, base), units |-> q - 1, errno |-> FALSE]

-----------------------------------------------------------------------------
(* dirtyjtag_spi_init *)

NoParam == <<"NULL">>

\* faulty variant: an unknown unit suffix is let through
ApplyUnits_lenient(s, parsed) ==
    LET units == parsed.units
        end == Len(s)
        rest == SubSeq(s, units + 1, end)
    IN  IF units = end - 3 /\ strcasecmp_eq(rest, <<"k","h","z">>)
        THEN [freq |-> parsed.val * 1000, valid |-> TRUE]
        ELSE IF units = end - 3 /\ strcasecmp_eq(rest, <<"m","h","z">>)
        THEN [freq |-> parsed.val * 1000000, valid |-> TRUE]
        ELSE [freq |-> parsed.val, valid |-> TRUE]

\* Lines 248-271: the value after the unit suffix was applied, and whether the
\* suffix was accepted.
ApplyUnits(s, parsed) ==
    LET units == parsed.units
        end == Len(s)
        rest == SubSeq(s, units + 1, end)
    IN  IF units > 0 /\ units < end
        THEN IF units < end - 3 THEN [freq |-> parsed.val, valid |-> FALSE]
             ELSE IF units = end - 2
             THEN [freq |-> parsed.val, valid |-> strcasecmp_eq(rest, <<"h","z">>)]
             ELSE IF units = end - 3
             THEN IF strcasecmp_eq(rest, <<"k","h","z">>)
                  THEN [freq |-> parsed.val * 1000, valid |-> TRUE]
                  ELSE IF strcasecmp_eq(rest, <<"m","h","z">>)
                  THEN [freq |-> parsed.val * 1000000, valid |-> TRUE]
                  ELSE [freq |-> parsed.val, valid |-> FALSE]
             ELSE [freq |-> parsed.val, valid |-> FALSE]
        ELSE [freq |-> parsed.val, valid |-> TRUE]

\* faulty variant: the lower range checks (lines 273-283) left out
ParseFreq_nolow(s) ==
    IF s = <<"NULL">> THEN [ok |-> TRUE, khz |-> 100, why |-> "none"]
    ELSE LET parsed == strtoul(s)
             u == ApplyUnits(s, parsed)
         IN  IF parsed.errno THEN [ok |-> FALSE, khz |-> 0, why |-> "errno"]
             ELSE IF ~u.valid THEN [ok |-> FALSE, khz |-> 0, why |-> "units"]
             ELSE IF u.freq > 1000 * 65535 THEN [ok |-> FALSE, khz |-> 0, why |-> "high"]
             ELSE [ok |-> TRUE, khz |-> u.freq \div 1000, why |-> "none"]

\* Lines 233-292: the frequency in kHz, or the reason the parameter is rejected.
ParseFreq(s) ==
    IF s = NoParam THEN [ok |-> TRUE, khz |-> 100, why |-> "none"]
    ELSE LET parsed == strtoul(s)
             u == ApplyUnits(s, parsed)
         IN  IF parsed.errno THEN [ok |-> FALSE, khz |-> 0, why |-> "errno"]
             ELSE IF ~u.valid THEN [ok |-> FALSE, khz |-> 0, why |-> "units"]
             ELSE IF u.freq = 0 THEN [ok |-> FALSE, khz |-> 0, why |-> "zero"]
             ELSE IF u.freq < 1000 THEN [ok |-> FALSE, khz |-> 0, why |-> "low"]
             ELSE IF u.freq > 1000 * 65535 THEN [ok |-> FALSE, khz |-> 0, why |-> "high"]
             ELSE [ok |-> TRUE, khz |-> u.freq \div 1000, why |-> "none"]

\* faulty variant: the frequency bytes in little-endian order
commands_le(f) ==
    <<CMD_SETSIG,
      SIG_TDI + SIG_TMS + SIG_TCK + SIG_SRST + SIG_TRST,
      SIG_SRST + SIG_TRST + SIG_TMS,
      CMD_FREQ,
      f % 256,
      (f \div 256) % 256,
      CMD_STOP>>

\* Lines 295-305
commands(f) ==
    <<CMD_SETSIG,
      SIG_TDI + SIG_TMS + SIG_TCK + SIG_SRST + SIG_TRST,
      SIG_SRST + SIG_TRST + SIG_TMS,
      CMD_FREQ,
      (f \div 256) % 256,
      f % 256,
      CMD_STOP>>

\* label cleanup (lines 314-317)
Cleanup(step) ==
    /\ handle' = "closed"
    /\ djtag_data' = IF djtag_data = "live" THEN "freed" ELSE djtag_data
    /\ iret' = -1
    /\ failed_step' = step
    /\ ipc' = "done"

\* Lines 193-197
LibusbInit ==
    /\ ipc = "start"
    /\ \E ok \in BOOLEAN :
         IF ok THEN /\ ipc' = "open"
                    /\ UNCHANGED <<iret, failed_step>>
         ELSE /\ ipc' = "done" /\ iret' = -1 /\ failed_step' = "libusb_init"
    /\ done_steps' = IF ipc' = "open" THEN Append(done_steps, "libusb_init") ELSE done_steps
    /\ UNCHANGED <<call, wire, sessionVars, cfg, tmp, freq>>

\* Lines 205-211
OpenDevice ==
    /\ ipc = "open"
    /\ \E ok \in BOOLEAN :
         IF ok THEN /\ handle' = "open" /\ ipc' = "claim"
                    /\ UNCHANGED <<iret, failed_step>>
         ELSE /\ ipc' = "done" /\ iret' = -1 /\ failed_step' = "open"
              /\ UNCHANGED handle
    /\ done_steps' = IF ipc' = "claim" THEN Append(done_steps, "open") ELSE done_steps
    /\ UNCHANGED <<call, wire, djtag_data, registered, protocol_version, cfg, tmp, freq>>

\* Lines 213-223
ClaimInterface ==
    /\ ipc = "claim"
    /\ \E ok \in BOOLEAN :
         IF ok THEN /\ ipc' = "calloc"
                    /\ UNCHANGED <<handle, djtag_data, iret, failed_step>>
         ELSE Cleanup("claim")
    /\ done_steps' = IF ipc' = "calloc" THEN Append(done_steps, "claim") ELSE done_steps
    /\ UNCHANGED <<call, wire, registered, protocol_version, cfg, tmp, freq>>

\* Lines 225-231
AllocData ==
    /\ ipc = "calloc"
    /\ \E ok \in BOOLEAN :
         IF ok THEN /\ djtag_data' = "live" /\ ipc' = "frequency"
                    /\ protocol_version' = "DJTAG1"
                    /\ UNCHANGED <<handle, iret, failed_step>>
         ELSE /\ Cleanup("calloc")
              /\ UNCHANGED protocol_version
    /\ done_steps' = IF ipc' = "frequency" THEN Append(done_steps, "calloc") ELSE done_steps
    /\ UNCHANGED <<call, wire, registered, cfg, tmp, freq>>

\* Lines 233-293: extract the parameter, parse it, free it.  A rejected
\* parameter returns 1 straight from the function.
Frequency ==
    /\ ipc = "frequency"
    /\ LET p == ParseFreq(cfg)
       IN  /\ tmp' = IF cfg = NoParam THEN "null" ELSE "freed"
           /\ IF p.ok
              THEN /\ freq' = p.khz /\ ipc' = "send"
                   /\ UNCHANGED <<iret, failed_step>>
              ELSE /\ ipc' = "done" /\ iret' = 1 /\ failed_step' = "frequency"
                   /\ UNCHANGED freq
    /\ done_steps' = IF ipc' = "send" THEN Append(done_steps, "frequency") ELSE done_steps
    /\ UNCHANGED <<call, wire, sessionVars, cfg>>

\* faulty variant: the result of sending the init frame is not checked
SendInit_unchecked ==
    /\ ipc = "send"
    /\ \E res \in SendResults(Len(commands(freq))) :
         /\ wire' = Append(wire, [who |-> "init", op |-> "send",
                                  data |-> commands(freq),
                                  ret |-> dirtyjtag_send(res, Len(commands(freq)))])
         /\ ipc' = "register"
         /\ UNCHANGED <<handle, djtag_data, iret, failed_step>>
    /\ done_steps' = Append(done_steps, "send")
    /\ UNCHANGED <<call, registered, protocol_version, cfg, tmp, freq>>

\* Lines 295-310
SendInit ==
    /\ ipc = "send"
    /\ \E res \in SendResults(Len(commands(freq))) :
         LET ret == dirtyjtag_send(res, Len(commands(freq)))
         IN  /\ wire' = Append(wire, [who |-> "init", op |-> "send",
                                      data |-> commands(freq), ret |-> ret])
             /\ IF ret # 0 THEN Cleanup("send")
                ELSE /\ ipc' = "register"
                     /\ UNCHANGED <<handle, djtag_data, iret, failed_step>>
    /\ done_steps' = IF ipc' = "register" THEN Append(done_steps, "send") ELSE done_steps
    /\ UNCHANGED <<call, registered, protocol_version, cfg, tmp, freq>>

\* Line 312: the function returns what register_spi_master returns.
Register ==
    /\ ipc = "register"
    /\ \E ok \in BOOLEAN :
         IF ok THEN /\ registered' = TRUE /\ iret' = 0
                    /\ UNCHANGED failed_step
         ELSE /\ iret' = 1 /\ failed_step' = "register"
              /\ UNCHANGED registered
    /\ ipc' = "done"
    /\ done_steps' = IF registered' THEN Append(done_steps, "register") ELSE done_steps
    /\ UNCHANGED <<call, wire, handle, djtag_data, protocol_version, cfg, tmp, freq>>


\* The session as dirtyjtag_spi_init leaves it when it returns 0 with no
\* frequency parameter given.
Init ==
    /\ call = [c \in Callers |-> IdleCall]
    /\ wire = <<>>
    /\ handle = "open"
    /\ djtag_data = "live"
    /\ registered = TRUE
    /\ ipc = "done"
    /\ cfg = NoParam
    /\ tmp = "null"
    /\ freq = 100
    /\ iret = 0
    /\ failed_step = "none"
    /\ protocol_version = "DJTAG1"
    /\ done_steps = <<"libusb_init", "open", "claim", "calloc", "frequency", "send", "register">>

Next ==
    \/ \E c \in SeqCallers : Begin(c, 0..MaxW, 0..MaxR, MaxCalls, Devices)
    \/ \E c \in SeqCallers : XferSend(c)
    \/ \E c \in SeqCallers : XferRecv(c)
    \/ \E c \in SeqCallers : ResetSend(c)
    \/ \E c \in SeqCallers : Return(c)
    \/ Shutdown

Spec == Init /\ [][Next]_vars

\* The same driver against the echoing test double.
NextEcho ==
    \/ \E c \in SeqCallers : Begin(c, 0..MaxW, 0..MaxR, MaxCalls, EchoDevices)
    \/ \E c \in SeqCallers : XferSend(c)
    \/ \E c \in SeqCallers : XferRecv(c)
    \/ \E c \in SeqCallers : ResetSend(c)
    \/ \E c \in SeqCallers : Return(c)
    \/ Shutdown

SpecEcho == Init /\ [][NextEcho]_vars

-----------------------------------------------------------------------------
(* dirtyjtag_spi_init from process start, over the frequency parameters below. *)

FreqParams ==
    { NoParam,
      <<"1","0","0">>,
      <<"1","0","0","k","h","z">>,
      <<"1","0","0","K","H","z">>,
      <<"1","m","h","z">>,
      <<"1","M","H","Z">>,
      <<"0">>,
      <<"0","k","h","z">>,
      <<"7","0","0","0","0","0","0","0">>,
      <<"6","5","5","3","6","k","h","z">>,
      <<"6","6","m","h","z">>,
      <<"5","x","y","z">>,
      <<"5","0","0","0","x">>,
      <<"5","0","0","0","k","h","z","z">>,
      <<"5","0","0","0","k","h">>,
      <<"k","h","z">>,
      <<"1","0","0","0">>,
      <<"1","5","0","0","h","z">>,
      <<"9","9","9">>,
      <<"6","5","5","3","5","k","h","z">>,
      <<"6","5","5","3","5","0","0","0">>,
      <<"6","5","5","3","5","0","0","1">>,
      <<"0","x","1","0","k","h","z">>,
      <<"0","1","0","k","h","z">>,
      <<" ","4","0","0","k","h","z">>,
      <<"9","9","9","9","9","9","9","9","9","9","9","9","9","9","9","9","9","9","9","9","9">> }

InitI ==
    /\ call = [c \in Callers |-> IdleCall]
    /\ wire = <<>>
    /\ handle = "none"
    /\ djtag_data = "null"
    /\ registered = FALSE
    /\ ipc = "start"
    /\ cfg \in FreqParams
    /\ tmp = IF cfg = NoParam THEN "null" ELSE "live"
    /\ freq = 100
    /\ iret = 0
    /\ failed_step = "none"
    /\ protocol_version = "unset"
    /\ done_steps = <<>>

NextInit ==
    \/ LibusbInit
    \/ OpenDevice
    \/ ClaimInterface
    \/ AllocData
    \/ Frequency
    \/ SendInit
    \/ Register

SpecInit == InitI /\ [][NextInit]_vars

-----------------------------------------------------------------------------
(* Two callers of the same session.  The driver takes no lock, so the steps
   of the two activations interleave at every transport call. *)

ConcW == {1}
ConcR == {0, 1}

NextConc ==
    \/ \E c \in Callers : Begin(c, ConcW, ConcR, 1, Devices)
    \/ \E c \in Callers : XferSend(c)
    \/ \E c \in Callers : XferRecv(c)
    \/ \E c \in Callers : ResetSend(c)
    \/ \E c \in Callers : Return(c)
    \/ Shutdown

SpecConc == Init /\ [][NextConc]_vars

-----------------------------------------------------------------------------
(* Reading the wire history *)

IsXferFrame(e) == e.op = "send" /\ Len(e.data) = FrameLen /\ e.data[1] = CMD_XFER
IsResetFrame(e) == e.op = "send" /\ e.data = <<CMD_SETSIG, SIG_TMS, SIG_TMS, CMD_STOP>>
IsRecv(e) == e.op = "recv"
Failed(e) == IF e.op = "send" THEN e.ret # 0 ELSE e.ret # FrameLen

\* the transport calls of caller c, oldest first
WireOf(c) == SelectSeq(wire, LAMBDA e : e.who = c)
XfersOf(c) == SelectSeq(wire, LAMBDA e : e.who = c /\ IsXferFrame(e))
RecvsOf(c) == SelectSeq(wire, LAMBDA e : e.who = c /\ IsRecv(e))
ResetsOf(c) == SelectSeq(wire, LAMBDA e : e.who = c /\ IsResetFrame(e))

\* both scratch buffers were allocated: the call reached its chunk loop
PastAlloc(c) == call[c].rx_st # "none"
Total(c) == call[c].writecnt + call[c].readcnt

\* ceil(n / 30), stated without the code's rounding expression
CeilDiv30(n) == CHOOSE q \in 0..n : 30 * q >= n /\ 30 * (q - 1) < n

\* logical length of chunk k (from 1) of a stream of n bytes
ChunkLen(k, n) ==
    IF k = CeilDiv30(n) /\ n % 30 # 0 THEN n % 30 ELSE 30

\* logical length a transfer frame declares (its bit count / 8)
DeclaredLen(e) == e.data[2] \div 8

-----------------------------------------------------------------------------
(* C1: a call with w + r > 0 that reaches its chunk loop has, when it returns,
   sent exactly ceil((w+r)/30) transfer frames; each declares the logical
   length 30, except the last, which declares (w+r) mod 30 when that is not
   zero.  (A call whose scratch allocation fails returns -1 before chunking
   anything.) *)
C1_FrameCount ==
    \A c \in Callers :
        (call[c].pc = "done" /\ PastAlloc(c) /\ Total(c) > 0) =>
            /\ Len(XfersOf(c)) = CeilDiv30(Total(c))
            /\ \A k \in 1..Len(XfersOf(c)) :
                 DeclaredLen(XfersOf(c)[k]) = ChunkLen(k, Total(c))

C1_Witness ==
    /\ call["A"].pc = "done" /\ PastAlloc("A")
    /\ call["A"].writecnt = 31 /\ call["A"].readcnt = 30
    /\ Len(XfersOf("A")) = 3
    /\ DeclaredLen(XfersOf("A")[3]) = 1

(* C2: when every send and receive of the call succeeded, readarr equals
   bytes [w, w+r) of the concatenation, in chunk order, of the first len_i
   bytes of each chunk's reply. *)
RECURSIVE ConcatReplies(_, _, _)
ConcatReplies(recvs, k, n) ==
    IF k > Len(recvs) THEN <<>>
    ELSE SubSeq(recvs[k].data, 1, ChunkLen(k, n)) \o ConcatReplies(recvs, k + 1, n)

AllSucceeded(c) == \A k \in 1..Len(WireOf(c)) : ~Failed(WireOf(c)[k])

C2_Reassembly ==
    \A c \in Callers :
        (call[c].pc = "done" /\ PastAlloc(c) /\ AllSucceeded(c)) =>
            call[c].readarr =
                SubSeq(ConcatReplies(RecvsOf(c), 1, Total(c)),
                       call[c].writecnt + 1, Total(c))

\* chunk boundaries at 30 (inside the write region) and 60 (inside the read region)
C2_Witness ==
    /\ call["A"].pc = "done" /\ PastAlloc("A") /\ AllSucceeded("A")
    /\ call["A"].writecnt = 31 /\ call["A"].readcnt = 31
    /\ Len(RecvsOf("A")) = 3
    /\ call["A"].readarr[1] = Reply(0, 1)[2]

(* C3: after the first failed transport call of a transaction no transfer
   frame is sent and no reply is received. *)
C3_AbortOnFailure ==
    \A c \in Callers :
        \A j, k \in 1..Len(WireOf(c)) :
            (j < k /\ Failed(WireOf(c)[j])) =>
                ~(IsXferFrame(WireOf(c)[k]) \/ IsRecv(WireOf(c)[k]))

(* C4: a reply that is not exactly 32 bytes long makes the call return an
   error, and the chunks reassembled before it stay in rx_buf unchanged. *)
HasShortReply(c) ==
    \E k \in 1..Len(RecvsOf(c)) : Len(RecvsOf(c)[k].data) # FrameLen

C4_ShortTransfer ==
    \A c \in Callers :
        /\ (call[c].pc = "done" /\ HasShortReply(c)) => call[c].ret # 0
        /\ (call[c].rx_st = "live" /\ HasShortReply(c)) =>
              \A k \in 1..Len(RecvsOf(c)) :
                  Len(RecvsOf(c)[k].data) = FrameLen =>
                      SubSeq(call[c].rx_buf, 30 * (k - 1) + 1,
                             30 * (k - 1) + ChunkLen(k, Total(c)))
                        = SubSeq(RecvsOf(c)[k].data, 1, ChunkLen(k, Total(c)))

(* C5: a call that reached its chunk loop sends the terminating frame
   (set-signal TMS, stop) exactly once, as its last transport call: after its
   last transfer frame, with no receive following; before it returns it has
   not sent it. *)
C5_TerminatingFrame ==
    \A c \in Callers :
        /\ (call[c].pc = "done" /\ PastAlloc(c)) =>
              /\ Len(ResetsOf(c)) = 1
              /\ IsResetFrame(WireOf(c)[Len(WireOf(c))])
              /\ Len(WireOf(c)) = Len(XfersOf(c)) + Len(RecvsOf(c)) + 1
        /\ call[c].pc \in {"send", "recv", "reset"} => Len(ResetsOf(c)) = 0

\* a call whose chunk transfers failed still ends with the terminating frame
C5_Witness ==
    /\ call["A"].pc = "done" /\ PastAlloc("A")
    /\ Len(XfersOf("A")) = 2
    /\ Failed(XfersOf("A")[1]) /\ Failed(RecvsOf("A")[2])
    /\ IsResetFrame(wire[Len(wire)])

(* C6 as stated: a call with w = 0 and r = 0 (whose allocations succeed)
   performs no transport call at all, not even the terminating frame, and
   returns success. *)
C6_NoTransportCalls ==
    \A c \in Callers :
        (call[c].pc = "done" /\ Total(c) = 0 /\ PastAlloc(c)) =>
            (WireOf(c) = <<>> /\ call[c].ret = 0)

(* C6 amended: a call with w = 0 and r = 0 sends no transfer frame and
   receives nothing; when its two allocations succeed it sends the
   terminating frame once and returns 0 with an empty read buffer, and when
   one fails it returns -1 without any transport call. *)
C6_EmptyTransaction ==
    \A c \in Callers :
        (call[c].pc = "done" /\ Total(c) = 0) =>
            /\ XfersOf(c) = <<>> /\ RecvsOf(c) = <<>>
            /\ call[c].readarr = <<>>
            /\ PastAlloc(c) =>
                  (Len(WireOf(c)) = 1 /\ IsResetFrame(WireOf(c)[1]) /\ call[c].ret = 0)
            /\ ~PastAlloc(c) => (WireOf(c) = <<>> /\ call[c].ret = -1)

C6_Witness ==
    /\ call["A"].pc = "done" /\ PastAlloc("A")
    /\ call["A"].writecnt = 0 /\ call["A"].readcnt = 0
    /\ Len(wire) = 1 /\ IsResetFrame(wire[1])
    /\ call["A"].ret = 0

-----------------------------------------------------------------------------
(* Frequency parameters by what the user asked for *)

ZeroParams == { <<"0">>, <<"0","k","h","z">> }
TooHighParams ==
    { <<"7","0","0","0","0","0","0","0">>,
      <<"6","5","5","3","6","k","h","z">>,
      <<"6","6","m","h","z">>,
      <<"6","5","5","3","5","0","0","1">> }
BadUnitParams ==
    { <<"5","x","y","z">>,
      <<"5","0","0","0","x">>,
      <<"5","0","0","0","k","h","z","z">>,
      <<"5","0","0","0","k","h">> }

InitFrames == SelectSeq(wire, LAMBDA e : e.who = "init")

(* C7: with a frequency parameter that is 0, above 65535 kHz, or carries a
   malformed unit suffix, dirtyjtag_spi_init issues no transport send or
   receive, never registers the master, and returns an error. *)
C7_RejectBeforeIO ==
    cfg \in (ZeroParams \cup TooHighParams \cup BadUnitParams) =>
        /\ wire = <<>>
        /\ ~registered
        /\ ipc \notin {"send", "register"}
        /\ ipc = "done" => iret # 0

C7_Witness ==
    /\ cfg = <<"5","0","0","0","x">>
    /\ ipc = "done" /\ failed_step = "frequency" /\ iret = 1
    /\ handle = "open" /\ wire = <<>>

(* C8 as stated: the parameters "100", "100khz" and "1mhz" are accepted and
   resolve to 100, 100 and 1000 kHz. *)
Khz100Params == { <<"1","0","0","k","h","z">>, <<"1","0","0","K","H","z">> }
Khz1000Params == { <<"1","m","h","z">>, <<"1","M","H","Z">> }
BareHundred == <<"1","0","0">>

Expected(p) == IF p \in Khz1000Params THEN 1000 ELSE 100

\* the parameter passed the parser: the init frame is about to be or was sent
Accepted == ipc \in {"send", "register"} \/
            (ipc = "done" /\ failed_step \in {"none", "send", "register"})

FreqInFrame(e) == e.data[5] * 256 + e.data[6]

C8_Resolves ==
    cfg \in (Khz100Params \cup Khz1000Params \cup {BareHundred}) =>
        /\ failed_step # "frequency"
        /\ Accepted => freq = Expected(cfg)
        /\ \A k \in 1..Len(InitFrames) : FreqInFrame(InitFrames[k]) = Expected(cfg)

(* C8 amended: "100khz" and "1mhz" (suffix in any letter case) are accepted
   and resolve to 100 and 1000 kHz, the value placed big-endian in the
   set-frequency command of the init frame; a bare "100" is read as hertz and
   rejected as lower than 1 kHz, before any transport call. *)
C8_ResolvesWithUnit ==
    /\ cfg \in (Khz100Params \cup Khz1000Params) =>
          /\ failed_step # "frequency"
          /\ Accepted => freq = Expected(cfg)
          /\ \A k \in 1..Len(InitFrames) :
                /\ InitFrames[k].data[4] = CMD_FREQ
                /\ FreqInFrame(InitFrames[k]) = Expected(cfg)
          /\ registered => (Len(InitFrames) = 1 /\ iret = 0)
    /\ cfg = BareHundred =>
          /\ ~Accepted /\ wire = <<>> /\ ~registered
          /\ (ipc = "done" /\ djtag_data = "live") => (failed_step = "frequency" /\ iret = 1)

C8_Witness ==
    /\ cfg = <<"1","M","H","Z">>
    /\ ipc = "done" /\ iret = 0 /\ registered
    /\ Len(wire) = 1 /\ wire[1].data[5] = 3 /\ wire[1].data[6] = 232

(* C9: every failure of dirtyjtag_spi_init after the handle was opened (claim,
   allocation, frequency, send of the init frame) closes the handle and frees
   the session data before it returns. *)
C9_NoLeakOnFailure ==
    (ipc = "done" /\ failed_step \in {"claim", "calloc", "frequency", "send"}) =>
        (handle = "closed" /\ djtag_data # "live")

(* C10: two concurrent calls on the same session are serialised: while a
   transaction is between its first transport call and its terminating
   frame, the other caller issues no transport call. *)
OpenAt(c, k) ==
    \E j \in 1..k :
        /\ wire[j].who = c
        /\ \A m \in j..k : ~(wire[m].who = c /\ IsResetFrame(wire[m]))

C10_Serialized ==
    \A k \in 1..Len(wire) :
        \A c \in Callers : (wire[k].who # c) => ~OpenAt(c, k)

-----------------------------------------------------------------------------
(* Transfer frames as the wire shows them *)

\* every frame caller c sent that is not the terminating frame, oldest first
DataSendsOf(c) ==
    SelectSeq(wire, LAMBDA e : e.who = c /\ e.op = "send"
                               /\ e.data # <<CMD_SETSIG, SIG_TMS, SIG_TMS, CMD_STOP>>)

\* the payload byte a frame carries for position j (from 1) of its chunk
Payload(e, j) == e.data[2 + j]

(* C11: against a device that echoes the payload of the frame just sent,
   every chunk whose 32-byte reply arrived is stored in rx_buf at the chunk's
   offset exactly as it was sent: byte for byte the frame's payload, which for
   positions below w is the caller's write byte. *)
C11_EchoRoundTrip ==
    \A c \in Callers :
        call[c].rx_st = "live" =>
            LET rs == RecvsOf(c)
                ds == DataSendsOf(c)
            IN  \A k \in 1..Len(rs) :
                  rs[k].ret = FrameLen =>
                    \A j \in 1..ChunkLen(k, Total(c)) :
                        /\ call[c].rx_buf[30 * (k - 1) + j] = Payload(ds[k], j)
                        /\ 30 * (k - 1) + j <= call[c].writecnt =>
                              call[c].rx_buf[30 * (k - 1) + j]
                                = call[c].writearr[30 * (k - 1) + j]

C11_Witness ==
    /\ call["A"].pc = "reset" /\ call["A"].dev.kind = "echo"
    /\ call["A"].writecnt = 31 /\ call["A"].readcnt = 31
    /\ \A k \in 1..3 : RecvsOf("A")[k].ret = FrameLen
    /\ call["A"].rx_buf[31] = 31
    /\ call["A"].garbage = 170 /\ call["A"].rx_buf[62] = 170

(* C12: inside one transaction the transport calls alternate send, receive,
   one pair per chunk: at most one transfer is outstanding, the frame of the
   next chunk is sent only after the receive of the previous one, and the
   k-th frame carries the chunk at offset 30*(k-1). *)
C12_Alternation ==
    \A c \in Callers :
        LET ws == WireOf(c)
            ds == DataSendsOf(c)
            outstanding == Len(ds) - Len(RecvsOf(c))
        IN  /\ \A k \in 1..Len(ws) :
                  ws[k].op = (IF k % 2 = 1 THEN "send" ELSE "recv")
            /\ outstanding \in {0, 1}
            /\ outstanding = 1 <=> call[c].pc = "recv"
            /\ \A k \in 1..Len(ds) :
                  \A j \in 1..ChunkLen(k, Total(c)) :
                      Payload(ds[k], j) = call[c].tx_buf[30 * (k - 1) + j]

C12_Witness ==
    /\ call["A"].pc = "send" /\ call["A"].i = 2
    /\ call["A"].writecnt = 31 /\ call["A"].readcnt = 31
    /\ Len(WireOf("A")) = 4
    /\ WireOf("A")[3].op = "send" /\ WireOf("A")[4].op = "recv"
    /\ Payload(WireOf("A")[3], 1) = 31

(* C15: for every stream position p < w, payload byte p mod 30 of transfer
   frame floor(p / 30) is write_bytes[p]. *)
C15_WriteBytesOnWire ==
    \A c \in Callers :
        LET ds == DataSendsOf(c)
        IN  \A p \in 0..(call[c].writecnt - 1) :
              (p \div 30) + 1 <= Len(ds) =>
                Payload(ds[(p \div 30) + 1], (p % 30) + 1)
                    = call[c].writearr[p + 1]

\* the second frame straddles the write/read boundary
C15_Witness ==
    /\ call["A"].pc = "done"
    /\ call["A"].writecnt = 31 /\ call["A"].readcnt = 5
    /\ Len(DataSendsOf("A")) = 2
    /\ Payload(DataSendsOf("A")[2], 1) = 31

(* C16: for every stream position p with w <= p < w + r the payload byte on
   the wire is zero; a transfer frame carries only caller-supplied write bytes
   and zeros. *)
C16_ZeroFiller ==
    \A c \in Callers :
        LET ds == DataSendsOf(c)
        IN  \A k \in 1..Len(ds) :
              \A j \in 1..ChunkLen(k, Total(c)) :
                Payload(ds[k], j) =
                    (IF 30 * (k - 1) + j <= call[c].writecnt
                     THEN call[c].writearr[30 * (k - 1) + j]
                     ELSE 0)

(* C17: every transfer frame is 32 bytes long, starts with the transfer
   command, declares its chunk's length times 8 (at most 240, so the byte
   does not wrap), and is zero after the payload. *)
C17_FrameLayout ==
    \A c \in Callers :
        LET ds == DataSendsOf(c)
        IN  \A k \in 1..Len(ds) :
            LET d == ds[k].data
                n == ChunkLen(k, Total(c))
            IN  /\ Len(d) = 32
                /\ d[1] = 3
                /\ d[2] = n * 8 /\ n <= 30 /\ d[2] <= 240
                /\ \A j \in (n + 3)..32 : d[j] = 0

C17_Witness ==
    /\ call["A"].pc = "recv" /\ call["A"].garbage = 170
    /\ call["A"].writecnt = 1 /\ call["A"].readcnt = 1
    /\ Len(wire) = 1
    /\ wire[1].data[2] = 16 /\ wire[1].data[4] = 170 /\ wire[1].data[5] = 0

(* C18: when the call has returned, neither scratch buffer is still
   allocated. *)
C18_BuffersReleased ==
    \A c \in Callers :
        call[c].pc = "done" => (call[c].tx_st # "live" /\ call[c].rx_st # "live")

(* C20: every access to tx_buf and rx_buf stays inside the allocation of
   30 * ceil((w+r)/30) bytes: the copy of writearr, each chunk's read from
   tx_buf and store into rx_buf, and the final copy into readarr. *)
C20_AccessInBounds ==
    \A c \in Callers :
        /\ ~call[c].oob
        /\ PastAlloc(c) =>
              /\ Len(call[c].tx_buf) = 30 * CeilDiv30(Total(c))
              /\ Len(call[c].rx_buf) = 30 * CeilDiv30(Total(c))
              /\ call[c].writecnt <= Len(call[c].tx_buf)
              /\ \A i \in 0..(call[c].i - 1) :
                    30 * i + ChunkLen(i + 1, Total(c)) <= Len(call[c].rx_buf)
              /\ Total(c) <= Len(call[c].rx_buf)

C20_Witness ==
    /\ call["A"].pc = "done" /\ PastAlloc("A")
    /\ call["A"].writecnt = 31 /\ call["A"].readcnt = 30
    /\ call["A"].i = 3 /\ Len(call["A"].rx_buf) = 90
    /\ ~call["A"].oob

-----------------------------------------------------------------------------
(* C13: the master is registered only after, in this order, the transport
   was opened, the interface claimed, the session data allocated, the
   frequency parsed and validated and the init frame sent successfully; when
   any step fails the master is not registered. *)
C13_ReadyOnlyAfterSteps ==
    /\ registered =>
          /\ done_steps = <<"libusb_init", "open", "claim", "calloc",
                            "frequency", "send", "register">>
          /\ handle = "open" /\ djtag_data = "live"
          /\ ParseFreq(cfg).ok /\ freq = ParseFreq(cfg).khz
          /\ Len(wire) = 1 /\ wire[1].who = "init" /\ wire[1].ret = 0
          /\ failed_step = "none" /\ iret = 0
    /\ failed_step # "none" => ~registered
    /\ ipc # "done" => ~registered

C13_Witness ==
    /\ registered /\ ipc = "done"
    /\ cfg = <<"1","5","0","0","h","z">>
    /\ Len(done_steps) = 7 /\ done_steps[6] = "send"
    /\ wire[1].ret = 0

(* C14: every init frame is the priming set-signal command, the
   set-frequency command and the stop command, in this order; the
   set-frequency payload is the resolved kHz value, big-endian, in
   [1, 65535], and 100 when no frequency parameter is given. *)
C14_InitFrame ==
    \A k \in 1..Len(InitFrames) :
        LET d == InitFrames[k].data
        IN  /\ Len(d) = 7
            /\ d[1] = 4 /\ d[2] = 4 + 16 + 2 + 64 + 32 /\ d[3] = 64 + 32 + 16
            /\ d[4] = 2
            /\ d[5] * 256 + d[6] = freq
            /\ d[5] \in 0..255 /\ d[6] \in 0..255
            /\ freq >= 1 /\ freq <= 65535
            /\ d[7] = 0
            /\ cfg = <<"NULL">> => d[5] * 256 + d[6] = 100

C14_Witness ==
    /\ cfg = <<"NULL">> /\ registered
    /\ Len(wire) = 1
    /\ wire[1].data = <<4, 118, 112, 2, 0, 100, 0>>

(* C19: a transaction that met a transport failure leaves the session as it
   was (handle open, session data allocated, master registered, protocol
   version DJTAG1), and the caller's next transaction, when all its transport
   calls succeed, returns the right read buffer. *)
SessionIntact ==
    /\ handle = "open" /\ djtag_data = "live" /\ registered
    /\ protocol_version = "DJTAG1"

C19_SessionUsableAfterFailure ==
    \A c \in Callers :
        /\ (call[c].pc # "idle" /\ ~AllSucceeded(c)) => SessionIntact
        /\ (call[c].prev_failed /\ call[c].pc = "done" /\ PastAlloc(c) /\ AllSucceeded(c)) =>
              /\ SessionIntact
              /\ call[c].ret = 0
              /\ call[c].readarr =
                    SubSeq(ConcatReplies(RecvsOf(c), 1, Total(c)),
                           call[c].writecnt + 1, Total(c))

C19_Witness ==
    /\ call["A"].prev_failed /\ call["A"].pc = "done"
    /\ PastAlloc("A") /\ AllSucceeded("A")
    /\ call["A"].writecnt = 31 /\ call["A"].readcnt = 31
    /\ call["A"].readarr[31] = Reply(0, 2)[2]
    /\ SessionIntact

====
